---- MODULE Spec2Model ----
(***************************************************************************)
(* qps-bench (src/qps-bench/src/main.rs): a fixed-duration, bounded-       *)
(* concurrency benchmark driver for object-storage operations.             *)
(*                                                                         *)
(* The model follows main(): mode dispatch, create_dataset, one of the     *)
(* five run_*_benchmark drivers (they differ only in the key they pick and *)
(* the backend call they make, so one driver is parameterised by `op`),    *)
(* the result computation and the cleanup loop.  Spawned attempts are      *)
(* separate processes; the backend, the clock and the histogram's record   *)
(* result are the environment and are chosen nondeterministically.         *)
(***************************************************************************)
EXTENDS Integers, Sequences, FiniteSets, TLC

\* ------------------------------------------------------------------ bounds
MaxObjects == 2
MaxConcurrency == 2
MaxDuration == 1
MaxAttempts == 2
MaxLatency == 1
MaxWorkers == 1
MaxOrdinal == 300
MaxKeys == 2

\* ------------------------------------------------------- program constants
ShardCount == 256
PruneFactor == 2

Modes == {"stat", "read_small", "write_small", "delete", "list", "read_write", "other"}
Results == {"ok", "err"}
Latencies == 1..MaxLatency
Prefix == "bench"
NoKey == <<>>
NoResult == <<>>

VARIABLES
    \* Args
    mode, objects, concurrency, duration_seconds, cleanup,
    \* main
    pc, op, keys, popI, result, ret, cleanI, cleaned,
    \* the environment: the clock, the uuid source, the backend's objects
    now, uuidNext, store,
    \* one driver run
    dpc, end_time, permits, handles, tasks,
    histogram, ok_count, err_count, next_key_index, key_counter,
    \* history (not program state): what has been issued and observed
    populateWrites, populateFailed, timedOps, cleanupDeletes,
    lateLaunches, dropped, panics, leftRunning,
    backendOks, backendErrs, cursorDraws, targets, pruned, prevOks

args == <<mode, objects, concurrency, duration_seconds, cleanup>>
mainVars == <<pc, op, keys, popI, result, ret, cleanI, cleaned>>
envVars == <<now, uuidNext, store>>
driverVars == <<dpc, end_time, permits, handles, tasks>>
sharedVars == <<histogram, ok_count, err_count, next_key_index, key_counter>>
runHist == <<timedOps, lateLaunches, dropped, panics, leftRunning,
             backendOks, backendErrs, cursorDraws, targets, pruned, prevOks>>
histVars == <<populateWrites, populateFailed, cleanupDeletes, runHist>>
vars == <<args, mainVars, envVars, driverVars, sharedVars, histVars>>

\* ------------------------------------------------------------ key naming
HexChars == <<"0", "1", "2", "3", "4", "5", "6", "7",
              "8", "9", "a", "b", "c", "d", "e", "f">>

\* format!("{:02x}", n) for n < 256
Hex2(n) == HexChars[(n \div 16) + 1] \o HexChars[(n % 16) + 1]

\* (mutant) only the low hex digit of the index is rendered
generate_key_LowDigit(prefix, index, uuid) == <<prefix, Hex2(index % 16), uuid>>

\* generate_key: prefix/<2 hex chars>/<uuid>; the uuid is drawn by the caller
generate_key(prefix, index, uuid) == <<prefix, Hex2(index % ShardCount), uuid>>

\* -------------------------------------------------------------- histogram
RECURSIVE CountUpTo(_, _)
CountUpTo(h, v) == IF v < 1 THEN 0 ELSE h[v] + CountUpTo(h, v - 1)

RECURSIVE SumUpTo(_, _)
SumUpTo(h, v) == IF v < 1 THEN 0 ELSE v * h[v] + SumUpTo(h, v - 1)

\* Histogram::<u64>::new(3)
NewHistogram == [v \in Latencies |-> 0]

HistTotal(h) == CountUpTo(h, MaxLatency)

\* Histogram::record on a representable value
HistRecord(h, v) == [h EXCEPT ![v] = @ + 1]

\* Histogram::value_at_quantile, the quantile given in percent: the first
\* value whose cumulative count reaches ceil(q * total), at least 1; 0 when
\* no count reaches it (the empty histogram).
value_at_quantile(h, pct) ==
    LET raw == (pct * HistTotal(h) + 99) \div 100
        count_at_quantile == IF raw = 0 THEN 1 ELSE raw
        reach == {v \in Latencies : CountUpTo(h, v) >= count_at_quantile}
    IN  IF reach = {} THEN 0 ELSE CHOOSE v \in reach : \A w \in reach : v <= w

\* Histogram::mean() as u64
HistMean(h) == IF HistTotal(h) = 0 THEN 0 ELSE SumUpTo(h, MaxLatency) \div HistTotal(h)

\* ------------------------------------------------------------------- main
\* (mutant) the dataset is built for every mode but write_small
NeedsDataset_UnlessWrite(m) == m # "write_small"

\* matches!(mode, "stat" | "read_small" | "delete" | "list")
NeedsDataset(m) == m \in {"stat", "read_small", "delete", "list"}

\* the driver the match at the end of main selects
DriverOf(m) ==
    CASE m = "stat" -> "stat"
      [] m = "read_small" -> "read"
      [] m = "write_small" -> "write"
      [] m = "delete" -> "delete"
      [] m = "list" -> "list"
      [] OTHER -> "none"

\* the drivers that pick their key as cursor % keys.len()
UsesKeySet(o) == o \in {"stat", "read", "delete"}

BenchmarkResult(m, r) ==
    [mode |-> m, ok_ops |-> r[1], err_ops |-> r[2],
     latency_us_p50 |-> value_at_quantile(r[3], 50),
     latency_us_p95 |-> value_at_quantile(r[3], 95),
     latency_us_p99 |-> value_at_quantile(r[3], 99),
     latency_us_mean |-> HistMean(r[3])]

Init ==
    /\ mode \in Modes
    /\ objects \in 0..MaxObjects
    /\ concurrency \in 0..MaxConcurrency
    /\ duration_seconds \in 0..MaxDuration
    /\ cleanup \in BOOLEAN
    /\ pc = "start"
    /\ op = "none"
    /\ keys = <<>>
    /\ popI = 0
    /\ result = NoResult
    /\ ret = <<>>
    /\ cleanI = 0
    /\ cleaned = 0
    /\ now = 0
    /\ uuidNext = 0
    /\ store = {}
    /\ dpc = "idle"
    /\ end_time = 0
    /\ permits = 0
    /\ handles = <<>>
    /\ tasks = <<>>
    /\ histogram = NewHistogram
    /\ ok_count = 0
    /\ err_count = 0
    /\ next_key_index = 0
    /\ key_counter = 0
    /\ populateWrites = 0
    /\ populateFailed = 0
    /\ timedOps = 0
    /\ cleanupDeletes = 0
    /\ lateLaunches = 0
    /\ dropped = 0
    /\ panics = 0
    /\ leftRunning = 0
    /\ backendOks = 0
    /\ backendErrs = 0
    /\ cursorDraws = <<>>
    /\ targets = <<>>
    /\ pruned = 0
    /\ prevOks = 0

\* (mutant) the new run's counter starts from the previous run's value
NewCounter_Carried(old) == old

\* AtomicU64::new(0), AtomicUsize::new(0): a new counter, whatever the one
\* of an earlier run holds
NewCounter(old) == 0

\* The head of every run_*_benchmark: a fresh semaphore, deadline, handle
\* list, histogram and counters; main builds the BenchmarkState with a fresh
\* next_key_index right before.
DriverInit(o) ==
    /\ op' = o
    /\ dpc' = "check"
    /\ end_time' = now + duration_seconds
    /\ permits' = concurrency
    /\ handles' = <<>>
    /\ leftRunning' = Cardinality({t \in 1..Len(tasks) : tasks[t].pc # "finished"})
    /\ tasks' = <<>>
    /\ histogram' = NewHistogram
    /\ ok_count' = NewCounter(ok_count)
    /\ err_count' = NewCounter(err_count)
    /\ next_key_index' = NewCounter(next_key_index)
    /\ key_counter' = NewCounter(key_counter)
    /\ timedOps' = 0
    /\ lateLaunches' = 0
    /\ dropped' = 0
    /\ panics' = 0
    /\ backendOks' = 0
    /\ backendErrs' = 0
    /\ cursorDraws' = <<>>
    /\ targets' = <<>>
    /\ pruned' = 0
    /\ prevOks' = backendOks

\* main, from the parsed arguments to the first backend interaction
Dispatch ==
    /\ pc = "start"
    /\ IF mode = "read_write" \/ NeedsDataset(mode)
       THEN /\ pc' = "populate"
            /\ UNCHANGED <<op, driverVars, sharedVars, runHist>>
       ELSE IF DriverOf(mode) # "none"
       THEN /\ pc' = "bench"
            /\ DriverInit(DriverOf(mode))
       ELSE /\ pc' = "exit_err"
            /\ UNCHANGED <<op, driverVars, sharedVars, runHist>>
    /\ UNCHANGED <<args, keys, popI, result, ret, cleanI, cleaned, envVars,
                   populateWrites, populateFailed, cleanupDeletes>>

\* (mutant) the key is pushed whatever the write returned
PushIfOk_Always(ks, key, res) == Append(ks, key)

\* match op.write(..) { Ok(_) => keys.push(key), Err(e) => eprintln!(..) }
PushIfOk(ks, key, res) == IF res = "ok" THEN Append(ks, key) ELSE ks

\* create_dataset: one iteration of `for i in 0..count`
Populate ==
    /\ pc = "populate"
    /\ popI < objects
    /\ \E res \in Results :
        LET key == generate_key(Prefix, popI, uuidNext)
        IN  /\ keys' = PushIfOk(keys, key, res)
            /\ store' = IF res = "ok" THEN store \cup {key} ELSE store
            /\ populateFailed' = populateFailed + (IF res = "ok" THEN 0 ELSE 1)
    /\ uuidNext' = uuidNext + 1
    /\ popI' = popI + 1
    /\ populateWrites' = populateWrites + 1
    /\ UNCHANGED <<args, pc, op, result, ret, cleanI, cleaned, now, driverVars,
                   sharedVars, timedOps, cleanupDeletes, lateLaunches, dropped,
                   panics, leftRunning, backendOks, backendErrs, cursorDraws,
                   targets, pruned, prevOks>>

\* (mutant) create_dataset returns before its loop has run to the end
DatasetDone_Early == TRUE

\* `for i in 0..count` is exhausted
DatasetDone == popI = objects

\* create_dataset returns Ok(keys); main builds the state and enters the driver
PopulateReturn ==
    /\ pc = "populate"
    /\ DatasetDone
    /\ pc' = "bench"
    /\ DriverInit(IF mode = "read_write" THEN "read" ELSE DriverOf(mode))
    /\ UNCHANGED <<args, keys, popI, result, ret, cleanI, cleaned, envVars,
                   populateWrites, populateFailed, cleanupDeletes>>

\* ---------------------------------------------------------- the driver
\* (mutant) an acquire that never waits for a permit
CanAcquire_Always == TRUE

\* (mutant) the launch loop waits until nothing is in flight
CanAcquire_WhenIdle == permits = concurrency

\* Semaphore::acquire_owned resolves only while a permit is available
CanAcquire == permits > 0

\* JoinHandle::is_finished
is_finished(h) == tasks[h].pc = "finished"

\* (mutant) the retain predicate inverted: the unfinished handles are dropped
RetainUnfinished_Inverted(hs) == SelectSeq(hs, LAMBDA h : is_finished(h))

\* handles.retain(|h| !h.is_finished())
RetainUnfinished(hs) == SelectSeq(hs, LAMBDA h : ~is_finished(h))

\* the state of a task right after tokio::spawn
SpawnedTask == [pc |-> "spawned", key |-> NoKey]

\* the clock. The driver only ever compares it with end_time, so it stops
\* at end_time (every later instant reads the same), and it is read in the
\* loop test and matters while the loop waits for a permit, so it advances
\* there.
Tick ==
    /\ pc = "bench"
    /\ dpc \in {"check", "acquire"}
    /\ now < end_time
    /\ now' = now + 1
    /\ UNCHANGED <<args, mainVars, uuidNext, store, driverVars, sharedVars, histVars>>

\* (mutant) a loop test that never sees the deadline
DeadlineAhead_Always == TRUE

\* Instant::now() < end_time
DeadlineAhead == now < end_time

\* while Instant::now() < end_time
LoopCheck ==
    /\ pc = "bench"
    /\ dpc = "check"
    /\ IF DeadlineAhead
       THEN /\ Len(tasks) < MaxAttempts
            /\ dpc' = "acquire"
       ELSE dpc' = "drain"
    /\ UNCHANGED <<args, mainVars, envVars, end_time, permits, handles, tasks,
                   sharedVars, histVars>>

\* the permit is acquired, the attempt spawned and its handle pushed
Launch ==
    /\ pc = "bench"
    /\ dpc = "acquire"
    /\ CanAcquire
    /\ permits' = permits - 1
    /\ tasks' = Append(tasks, SpawnedTask)
    /\ handles' = Append(handles, Len(tasks) + 1)
    /\ lateLaunches' = lateLaunches + (IF now >= end_time THEN 1 ELSE 0)
    /\ dpc' = "prune"
    /\ UNCHANGED <<args, mainVars, envVars, end_time, sharedVars,
                   populateWrites, populateFailed, timedOps, cleanupDeletes,
                   dropped, panics, leftRunning, backendOks, backendErrs,
                   cursorDraws, targets, pruned, prevOks>>

\* (mutant) the handle list is never pruned
ShouldPrune_Never(n) == FALSE

\* handles.len() >= concurrency * 2
ShouldPrune(n) == n >= concurrency * PruneFactor

\* if handles.len() >= concurrency * 2 { handles.retain(..) }
Prune ==
    /\ pc = "bench"
    /\ dpc = "prune"
    /\ handles' = IF ShouldPrune(Len(handles))
                  THEN RetainUnfinished(handles)
                  ELSE handles
    /\ pruned' = pruned + (Len(handles) - Len(handles'))
    /\ dpc' = "check"
    /\ UNCHANGED <<args, mainVars, envVars, end_time, permits, tasks,
                   sharedVars, populateWrites, populateFailed, cleanupDeletes,
                   timedOps, lateLaunches, dropped, panics, leftRunning,
                   backendOks, backendErrs, cursorDraws, targets, prevOks>>

\* (mutant) an await that resolves whether or not the task has finished
CanJoin_Always(h) == TRUE

\* the handle the drain loop is awaiting has resolved
CanJoin(h) == is_finished(h)

\* for handle in handles { let _ = handle.await; }
AwaitHandle ==
    /\ pc = "bench"
    /\ dpc = "drain"
    /\ handles # <<>>
    /\ CanJoin(Head(handles))
    /\ handles' = Tail(handles)
    /\ UNCHANGED <<args, mainVars, envVars, dpc, end_time, permits, tasks,
                   sharedVars, histVars>>

\* the driver reads the histogram and the counters and returns them
DriverReturn ==
    /\ pc = "bench"
    /\ dpc = "drain"
    /\ handles = <<>>
    /\ ret' = <<ok_count, err_count, histogram>>
    /\ dpc' = "done"
    /\ pc' = "report"
    /\ UNCHANGED <<args, op, keys, popI, result, cleanI, cleaned, envVars,
                   end_time, permits, handles, tasks, sharedVars, histVars>>

\* --------------------------------------------------------- one attempt
\* A task that has dropped its permit and is not yet marked complete is still
\* inside its last poll, on a runtime worker thread: at most MaxWorkers are.
WorkerFree == Cardinality({u \in 1..Len(tasks) : tasks[u].pc = "exited"}) < MaxWorkers

\* (mutant) the permit is forgotten, not dropped
DropPermit_Forgotten(p) == p

\* `_permit` goes out of scope, at the end of the task body or while a panic
\* unwinds it: the semaphore gets the permit back
DropPermit(p) == p + 1

\* (mutant) every attempt picks the first key
KeyIndex_First(drawn, n) == 0

\* fetch_add(1) % keys.len(), for a non-empty key set
KeyIndex(drawn, n) == drawn % n

\* AtomicUsize::fetch_add(1): the value read, the value left behind
FetchAddValue(counter) == counter

\* (mutant) a load followed by a store of the same value: the increment is lost
FetchAddNext_Lost(counter) == counter

FetchAddNext(counter) == counter + 1

\* the attempt's first poll: it draws its cursor value and its key and
\* issues the backend call. `x % keys.len()` panics on an empty key set;
\* the unwinding drops the permit and the task ends without an outcome.
AttemptStart(t) ==
    /\ tasks[t].pc = "spawned"
    /\ IF op = "write"
       THEN LET counter == FetchAddValue(key_counter)
                key == generate_key(Prefix, counter, uuidNext)
            IN  /\ tasks' = [tasks EXCEPT ![t] = [pc |-> "awaiting", key |-> key]]
                /\ key_counter' = FetchAddNext(key_counter)
                /\ uuidNext' = uuidNext + 1
                /\ cursorDraws' = Append(cursorDraws, counter)
                /\ targets' = Append(targets, key)
                /\ timedOps' = timedOps + 1
                /\ UNCHANGED <<next_key_index, permits, panics>>
       ELSE IF UsesKeySet(op)
       THEN LET drawn == FetchAddValue(next_key_index)
            IN  /\ next_key_index' = FetchAddNext(next_key_index)
                /\ cursorDraws' = Append(cursorDraws, drawn)
                /\ IF Len(keys) = 0
                   THEN /\ WorkerFree
                        /\ tasks' = [tasks EXCEPT ![t] = [pc |-> "exited", key |-> NoKey]]
                        /\ permits' = DropPermit(permits)
                        /\ panics' = panics + 1
                        /\ UNCHANGED <<timedOps, targets>>
                   ELSE /\ tasks' = [tasks EXCEPT ![t] =
                               [pc |-> "awaiting",
                                key |-> keys[KeyIndex(drawn, Len(keys)) + 1]]]
                        /\ targets' = Append(targets, keys[KeyIndex(drawn, Len(keys)) + 1])
                        /\ timedOps' = timedOps + 1
                        /\ UNCHANGED <<permits, panics>>
                /\ UNCHANGED <<key_counter, uuidNext>>
       ELSE /\ tasks' = [tasks EXCEPT ![t] = [pc |-> "awaiting", key |-> NoKey]]
            /\ timedOps' = timedOps + 1
            /\ UNCHANGED <<next_key_index, key_counter, uuidNext, permits, panics,
                           cursorDraws, targets>>
    /\ UNCHANGED <<args, mainVars, now, store, dpc, end_time, handles,
                   histogram, ok_count, err_count,
                   populateWrites, populateFailed, cleanupDeletes,
                   lateLaunches, dropped, leftRunning, backendOks, backendErrs,
                   pruned, prevOks>>

\* what the Ok arm does to the histogram: record(latency_us).ok() discards
\* a failed record
RecordOk(h, latency_us, rec) == IF rec = "ok" THEN HistRecord(h, latency_us) ELSE h

\* (mutant) an Err arm that records a sample
RecordErr_Records(h) == HistRecord(h, 1)

\* what the Err arm does to the histogram
RecordErr(h) == h

\* (mutant) an Err arm that forgets its counter
ErrCountAfter_Skip(res, c) == c

\* the counters after the match on the call's result
OkCountAfter(res, c) == IF res = "ok" THEN c + 1 ELSE c
ErrCountAfter(res, c) == IF res = "ok" THEN c ELSE c + 1

\* the backend call resolves, the match on its result updates the histogram
\* and one counter, and the task body ends, which drops the permit
AttemptComplete(t) ==
    /\ tasks[t].pc = "awaiting"
    /\ WorkerFree
    /\ \E res \in Results :
        /\ store' = IF res = "ok" /\ op = "write" THEN store \cup {tasks[t].key}
                    ELSE IF res = "ok" /\ op = "delete" THEN store \ {tasks[t].key}
                    ELSE store
        /\ backendOks' = backendOks + (IF res = "ok" THEN 1 ELSE 0)
        /\ backendErrs' = backendErrs + (IF res = "ok" THEN 0 ELSE 1)
        /\ IF res = "ok"
           THEN \E latency_us \in Latencies, rec \in Results :
                    /\ histogram' = RecordOk(histogram, latency_us, rec)
                    /\ dropped' = dropped + (IF rec = "ok" THEN 0 ELSE 1)
           ELSE /\ histogram' = RecordErr(histogram)
                /\ UNCHANGED dropped
        /\ ok_count' = OkCountAfter(res, ok_count)
        /\ err_count' = ErrCountAfter(res, err_count)
    /\ permits' = DropPermit(permits)
    /\ tasks' = [tasks EXCEPT ![t] = [pc |-> "exited", key |-> NoKey]]
    /\ UNCHANGED <<args, mainVars, now, uuidNext, dpc, end_time, handles,
                   next_key_index, key_counter,
                   populateWrites, populateFailed, timedOps, cleanupDeletes,
                   lateLaunches, panics, leftRunning, cursorDraws, targets,
                   pruned, prevOks>>

\* the runtime marks the task complete: is_finished() and await see it
AttemptFinish(t) ==
    /\ tasks[t].pc = "exited"
    /\ tasks' = [tasks EXCEPT ![t] = [pc |-> "finished", key |-> NoKey]]
    /\ UNCHANGED <<args, mainVars, envVars, dpc, end_time, permits, handles,
                   sharedVars, histVars>>

\* ------------------------------------------------- report and cleanup
ResultMode ==
    IF mode = "read_write"
    THEN (IF op = "read" THEN "read_small" ELSE "write_small")
    ELSE mode

\* the quantiles are read from the returned histogram and the
\* BenchmarkResult is built and printed
Report ==
    /\ pc = "report"
    /\ result' = BenchmarkResult(ResultMode, ret)
    /\ pc' = "printed"
    /\ UNCHANGED <<args, op, keys, popI, ret, cleanI, cleaned, envVars,
                   driverVars, sharedVars, histVars>>

\* (mutant) the cleanup block is entered whatever the flag and the key set
CleanupWanted_Always == TRUE

\* if args.cleanup && !keys.is_empty()
CleanupWanted == cleanup /\ keys # <<>>

\* after the printing: read_write goes on to the write driver, every other
\* path reaches the cleanup test. What was printed is output, not state.
AfterReport ==
    /\ pc = "printed"
    /\ result' = NoResult
    /\ ret' = <<>>
    /\ IF mode = "read_write" /\ op = "read"
       THEN /\ pc' = "bench"
            /\ DriverInit("write")
       ELSE /\ pc' = IF CleanupWanted THEN "cleanup" ELSE "exit_ok"
            /\ UNCHANGED <<op, driverVars, sharedVars, runHist>>
    /\ UNCHANGED <<args, keys, popI, cleanI, cleaned, envVars,
                   populateWrites, populateFailed, cleanupDeletes>>

\* (mutant) every delete is counted, failed or not
CleanedAfter_Always(res, c) == c + 1

\* if op.delete(key).await.is_ok() { cleaned += 1 }
CleanedAfter(res, c) == IF res = "ok" THEN c + 1 ELSE c

\* for key in keys.iter() { if op.delete(key).await.is_ok() { cleaned += 1 } }
Cleanup ==
    /\ pc = "cleanup"
    /\ cleanI < Len(keys)
    /\ \E res \in Results :
        /\ cleaned' = CleanedAfter(res, cleaned)
        /\ store' = IF res = "ok" THEN store \ {keys[cleanI + 1]} ELSE store
    /\ cleanI' = cleanI + 1
    /\ cleanupDeletes' = cleanupDeletes + 1
    /\ pc' = IF cleanI + 1 = Len(keys) THEN "exit_ok" ELSE "cleanup"
    /\ UNCHANGED <<args, op, keys, popI, result, ret, now, uuidNext,
                   driverVars, sharedVars,
                   populateWrites, populateFailed, runHist>>

Next ==
    \/ Dispatch
    \/ Populate
    \/ PopulateReturn
    \/ Tick
    \/ LoopCheck
    \/ Launch
    \/ Prune
    \/ AwaitHandle
    \/ DriverReturn
    \/ \E t \in 1..Len(tasks) : AttemptStart(t)
    \/ \E t \in 1..Len(tasks) : AttemptComplete(t)
    \/ \E t \in 1..Len(tasks) : AttemptFinish(t)
    \/ Report
    \/ AfterReport
    \/ Cleanup

Spec == Init /\ [][Next]_vars

\* ------------------------------------------------------------ fairness
\* The clock advances, the launch loop and the drain loop take their steps,
\* every spawned attempt is polled and every backend call returns.
AttemptStep(t) ==
    /\ t \in DOMAIN tasks
    /\ (AttemptStart(t) \/ AttemptComplete(t) \/ AttemptFinish(t))

FairSpec ==
    /\ Spec
    /\ WF_vars(Tick)
    /\ WF_vars(LoopCheck)
    /\ WF_vars(Launch)
    /\ WF_vars(Prune)
    /\ WF_vars(AwaitHandle)
    /\ WF_vars(DriverReturn)
    /\ \A t \in 1..MaxAttempts : WF_vars(AttemptStep(t))

\* ------------------------------------------- generate_key on its own
\* generate_key applied to ordinals on both sides of the wrap at ShardCount,
\* as its two callers apply it: create_dataset with its loop index,
\* run_write_benchmark with the value drawn from the cursor. cursorDraws and
\* targets log the ordinal passed and the key returned.
KeyInit ==
    /\ mode = "write_small"
    /\ objects = 0
    /\ concurrency = 1
    /\ duration_seconds = 0
    /\ cleanup = FALSE
    /\ pc = "start"
    /\ op = "none"
    /\ keys = <<>>
    /\ popI \in 0..MaxOrdinal
    /\ result = NoResult
    /\ ret = <<>>
    /\ cleanI = 0
    /\ cleaned = 0
    /\ now = 0
    /\ uuidNext = 0
    /\ store = {}
    /\ dpc = "idle"
    /\ end_time = 0
    /\ permits = 0
    /\ handles = <<>>
    /\ tasks = <<>>
    /\ histogram = NewHistogram
    /\ ok_count = 0
    /\ err_count = 0
    /\ next_key_index = 0
    /\ key_counter = popI
    /\ populateWrites = 0
    /\ populateFailed = 0
    /\ timedOps = 0
    /\ cleanupDeletes = 0
    /\ lateLaunches = 0
    /\ dropped = 0
    /\ panics = 0
    /\ leftRunning = 0
    /\ backendOks = 0
    /\ backendErrs = 0
    /\ cursorDraws = <<>>
    /\ targets = <<>>
    /\ pruned = 0
    /\ prevOks = 0

\* let key = generate_key(prefix, i) in create_dataset
GenerateForPopulate ==
    /\ Len(targets) < MaxKeys
    /\ targets' = Append(targets, generate_key(Prefix, popI, uuidNext))
    /\ cursorDraws' = Append(cursorDraws, popI)
    /\ popI' = popI + 1
    /\ uuidNext' = uuidNext + 1
    /\ UNCHANGED <<args, pc, op, keys, result, ret, cleanI, cleaned, now, store,
                   driverVars, sharedVars, populateWrites, populateFailed,
                   cleanupDeletes, timedOps, lateLaunches, dropped, panics,
                   leftRunning, backendOks, backendErrs, pruned, prevOks>>

\* let key = generate_key(&prefix, counter) in run_write_benchmark
GenerateForWrite ==
    /\ Len(targets) < MaxKeys
    /\ targets' = Append(targets, generate_key(Prefix, FetchAddValue(key_counter), uuidNext))
    /\ cursorDraws' = Append(cursorDraws, FetchAddValue(key_counter))
    /\ key_counter' = FetchAddNext(key_counter)
    /\ uuidNext' = uuidNext + 1
    /\ UNCHANGED <<args, mainVars, now, store, driverVars, histogram, ok_count,
                   err_count, next_key_index, populateWrites, populateFailed,
                   cleanupDeletes, timedOps, lateLaunches, dropped, panics,
                   leftRunning, backendOks, backendErrs, pruned, prevOks>>

KeyNext ==
    \/ GenerateForPopulate
    \/ GenerateForWrite

KeySpec == KeyInit /\ [][KeyNext]_vars

\* ===================================================================
\* The claims
\* ===================================================================

\* the attempts that hold a permit: spawned with it, not yet dropped it
InFlight == {t \in 1..Len(tasks) : tasks[t].pc \in {"spawned", "awaiting"}}

\* the attempts the runtime has marked complete
Completed == {t \in 1..Len(tasks) : tasks[t].pc = "finished"}

KnownModes == Modes \ {"other"}

\* C1: in every driver and every reachable state, the number of attempts that
\* have been launched and still hold their permit is at most `concurrency`.
C1_PermitCap == Cardinality(InFlight) <= concurrency

\* C1 witness: the cap is reached and the launch loop waits for a permit
C1_CapReached ==
    /\ concurrency >= 1
    /\ Cardinality(InFlight) = concurrency
    /\ dpc = "acquire"

\* C2 (as claimed): when the driver has returned, success_count +
\* failure_count equals the number of attempts launched and completed: every
\* attempt has incremented exactly one of the two counters.
C2_EveryAttemptCounted ==
    dpc = "done" => ok_count + err_count = Cardinality(Completed)

C4_NoLaunchAfterDeadline == lateLaunches = 0

\* C5: when a driver has returned its result, every attempt it launched has
\* completed, the pruned ones included, and the counters and the histogram
\* still are what the driver read.
C5_AllCompleteAtReturn ==
    /\ dpc = "done" => \A t \in 1..Len(tasks) : tasks[t].pc = "finished"
    /\ pc \in {"report", "printed"} => ret = <<ok_count, err_count, histogram>>

\* C5 witness: a driver has returned after its retain step pruned a handle
C5_ReturnedAfterPrune ==
    /\ pc = "report"
    /\ pruned >= 1
    /\ Len(tasks) = MaxAttempts

\* C6 (as claimed): a result printed from an empty histogram carries no
\* number in its quantile fields (the quantile calls failed with "no data").
C6_EmptyHistogramIsNoData ==
    (pc = "printed" /\ HistTotal(ret[3]) = 0) =>
        /\ result.latency_us_p50 \notin Nat
        /\ result.latency_us_p95 \notin Nat
        /\ result.latency_us_p99 \notin Nat

\* C7: the step in which a backend call that failed is handled increments
\* the failure counter by one, leaves the success counter and the histogram
\* unchanged, frees the permit and leaves the launch loop where it is.
C7_FailureCountedRunContinues ==
    [][\A t \in DOMAIN tasks :
          (/\ t \in DOMAIN tasks'
           /\ tasks[t].pc = "awaiting"
           /\ tasks'[t].pc = "exited"
           /\ backendErrs' = backendErrs + 1)
          => /\ err_count' = err_count + 1
             /\ ok_count' = ok_count
             /\ histogram' = histogram
             /\ permits' = permits + 1
             /\ dpc' = dpc
             /\ pc' = pc]_vars

\* C7 witness: with one permit, an attempt has been launched after a failure
\* and before the deadline
C7_LaunchedAfterFailure ==
    /\ concurrency = 1
    /\ err_count = 1
    /\ now < end_time
    /\ \E t \in 1..Len(tasks) : tasks[t].pc = "spawned"

Distinct(seq) == \A i, j \in DOMAIN seq : i # j => seq[i] # seq[j]

\* C8: in a write run no two attempts draw the same cursor ordinal, and no
\* two attempts write to the same key.
C8_WriteOrdinalsDistinct ==
    op = "write" => Distinct(cursorDraws) /\ Distinct(targets)

\* C8 witness: two write attempts have drawn their ordinals and are both in
\* flight
C8_TwoConcurrentWrites ==
    /\ op = "write"
    /\ Len(cursorDraws) = 2
    /\ \A t \in 1..2 : tasks[t].pc = "awaiting"

\* the keys of a key set are in issue order: the suffix is the issue number
InIssueOrder(ks) == \A i, j \in DOMAIN ks : i < j => ks[i][3] < ks[j][3]

Range(seq) == {seq[i] : i \in DOMAIN seq}

\* C9: create_dataset issues exactly `count` writes, a failed write does not
\* stop it, and the Key Set holds exactly the keys whose write succeeded, in
\* issue order, so its length is count minus the number of failed writes.
C9_DatasetIsSuccessfulWrites ==
    /\ pc = "populate" =>
          /\ populateWrites = popI
          /\ popI <= objects
          /\ Range(keys) = store
    /\ (pc \notin {"start", "populate"} /\ (NeedsDataset(mode) \/ mode = "read_write")) =>
          populateWrites = objects
    /\ Len(keys) = populateWrites - populateFailed
    /\ InIssueOrder(keys)
    /\ \A i \in DOMAIN keys : keys[i][2] = Hex2(keys[i][3] % ShardCount)

\* C9 witness: two writes requested, the first failed, the second was still
\* issued and is the only key
C9_ContinuedAfterFailure ==
    /\ pc = "bench"
    /\ objects = 2
    /\ populateFailed = 1
    /\ Len(keys) = 1
    /\ keys[1][3] = 1

\* C10: for an unknown mode name the program ends in the error exit and no
\* backend operation is ever issued.
C10_UnknownModeNoBackend ==
    mode \notin KnownModes =>
        /\ pc \in {"start", "exit_err"}
        /\ populateWrites = 0
        /\ timedOps = 0
        /\ cleanupDeletes = 0
        /\ tasks = <<>>
        /\ store = {}

\* C10 witness: the error exit of an unknown mode
C10_UnknownModeRejected == mode = "other" /\ pc = "exit_err"

\* C11 (as claimed): in a delete run, the step in which an attempt picks its
\* key never picks a key that a delete of this run has already removed (the
\* Key Set's objects all exist when the run starts, so a key missing from the
\* backend is one a timed delete succeeded on).
C11_DeletedKeyNotReused ==
    [][\A t \in DOMAIN tasks :
          (/\ op = "delete"
           /\ t \in DOMAIN tasks'
           /\ tasks[t].pc = "spawned"
           /\ tasks'[t].pc = "awaiting")
          => tasks'[t].key \in store]_vars

\* C12: in read_write mode, the step that starts the write driver is taken
\* only when the read driver has returned and every read attempt has
\* completed; no attempt of an earlier run is ever left running.
C12_PhasesSequential ==
    /\ [](leftRunning = 0)
    /\ [][(mode = "read_write" /\ op = "read" /\ op' = "write")
            => (/\ dpc = "done"
                /\ pc = "printed"
                /\ handles = <<>>
                /\ \A t \in DOMAIN tasks : tasks[t].pc = "finished")]_vars

\* C12 witness: the write phase has launched an attempt after a read phase
\* in which a read succeeded
C12_WriteAfterReads ==
    /\ mode = "read_write"
    /\ op = "write"
    /\ prevOks >= 1
    /\ \E t \in DOMAIN tasks : tasks[t].pc = "spawned"

\* C13 (as claimed): when the cleanup flag is set and every cleanup delete
\* succeeded, no object written by the run remains in the backend at exit.
C13_CleanupRemovesEverything ==
    (pc = "exit_ok" /\ cleanup /\ cleaned = cleanupDeletes) => store = {}

\* the keys the cleanup loop has gone through and that are still in the backend
StillStored == {i \in 1..cleanI : keys[i] \in store}

\* C14: cleanup issues one delete per key of the Key Set, in order, whatever
\* the earlier deletes returned; the deleted count is the number of deletes
\* that succeeded (a key still in the backend is one whose delete failed, and
\* where no timed delete ran, the count is exactly the keys that are gone);
\* and a cleanup that has started ends in the normal exit, never the error one.
C14_CleanupBestEffort ==
    /\ pc = "cleanup" =>
          /\ CleanupWanted
          /\ cleanupDeletes = cleanI
          /\ cleanI < Len(keys)
    /\ pc = "exit_ok" =>
          cleanupDeletes = (IF CleanupWanted THEN Len(keys) ELSE 0)
    /\ cleanupDeletes > 0 => pc \in {"cleanup", "exit_ok"}
    /\ cleaned <= cleanupDeletes
    /\ Cardinality(StillStored) <= cleanupDeletes - cleaned
    /\ mode # "delete" => cleaned = cleanI - Cardinality(StillStored)

\* C14 witness: the first of two cleanup deletes failed, the second was still
\* issued and succeeded, and the program exited normally with a count of one
C14_ContinuedAfterFailedDelete ==
    /\ pc = "exit_ok"
    /\ Len(keys) = 2
    /\ cleanupDeletes = 2
    /\ cleaned = 1
    /\ keys[1] \in store
    /\ keys[2] \notin store

\* C15: from the moment a driver has built its semaphore, the available
\* permits plus the attempts holding one add up to `concurrency`, and when
\* the driver has returned every permit is available again.
C15_PermitsConserved ==
    /\ dpc # "idle" => permits + Cardinality(InFlight) = concurrency
    /\ dpc = "done" => permits = concurrency

\* C15 witness: a driver has returned with both permits back after its two
\* attempts ended abnormally (they panicked on the empty key set)
C15_AllBackAfterPanics ==
    /\ dpc = "done"
    /\ concurrency = 2
    /\ permits = 2
    /\ panics = 2

\* C16 (as claimed): under the fairness of FairSpec (the clock passes the
\* deadline, every attempt is polled, every backend call returns), every
\* driver run that has started eventually reaches Done, for every
\* concurrency and duration.
C16_DriverTerminates == (dpc = "check") ~> (dpc = "done")

\* how many times key k was picked
TimesPicked(k) == Cardinality({i \in DOMAIN targets : targets[i] = k})

\* C17: in a stat, read or delete run the i-th cursor draw returns i - 1
\* (fetch-and-increment from 0), every attempt that has picked a key picked
\* the one at index (cursor value mod Key Set length), and once k * n
\* attempts have picked their key over a Key Set of length n, every key has
\* been picked exactly k times.
C17_RoundRobinCoverage ==
    UsesKeySet(op) =>
        /\ \A i \in DOMAIN cursorDraws : cursorDraws[i] = i - 1
        /\ \A i \in DOMAIN targets :
              targets[i] = keys[(cursorDraws[i] % Len(keys)) + 1]
        /\ \A k \in 0..MaxAttempts :
              Len(targets) = k * Len(keys) =>
                  \A j \in DOMAIN keys : TimesPicked(keys[j]) = k

\* C17 witness: two attempts in flight together over a Key Set of two keys,
\* the attempt launched second having drawn first
C17_BothKeysPicked ==
    /\ op = "read"
    /\ Len(keys) = 2
    /\ Len(targets) = 2
    /\ tasks[1].pc = "awaiting"
    /\ tasks[2].pc = "awaiting"
    /\ tasks[2].key = keys[1]
    /\ tasks[1].key = keys[2]

\* the modes that build a data set
DatasetModes == {"stat", "read_small", "delete", "list", "read_write"}

\* C18: once a driver exists, every populate write has been issued and has
\* returned (`objects` of them in the data-set modes, none in write_small,
\* whose Key Set is empty); the populate loop never runs a second time; and
\* the only steps that change the Key Set are the populate steps, taken
\* before any driver or attempt exists.
C18_KeySetBuiltOnceBeforeTimed ==
    /\ []((dpc # "idle" \/ tasks # <<>> \/ timedOps > 0) =>
             /\ pc # "populate"
             /\ populateWrites = (IF mode \in DatasetModes THEN objects ELSE 0)
             /\ Len(keys) = populateWrites - populateFailed)
    /\ [](populateWrites <= objects)
    /\ [](mode = "write_small" => (populateWrites = 0 /\ keys = <<>>))
    /\ [][keys' # keys =>
            (/\ pc = "populate"
             /\ dpc = "idle"
             /\ tasks = <<>>
             /\ keys' = Append(keys, generate_key(Prefix, popI, uuidNext)))]_vars

\* C18 witness: the first timed attempt is launched over a Key Set of two keys
C18_FirstLaunchAfterPopulate ==
    /\ mode \in DatasetModes
    /\ populateWrites = 2
    /\ Len(keys) = 2
    /\ Len(tasks) = 1
    /\ tasks[1].pc = "spawned"

\* C19: every key generate_key returns is <prefix, shard, suffix> whose shard
\* is the two lower-case hex digits of (ordinal mod 256), for ordinals on
\* both sides of 256 and for both callers.
C19_ShardIsOrdinalMod256 ==
    /\ Len(targets) = Len(cursorDraws)
    /\ \A i \in DOMAIN targets :
          LET shard == cursorDraws[i] % 256
          IN  /\ Len(targets[i]) = 3
              /\ targets[i][1] = Prefix
              /\ targets[i][2] = HexChars[(shard \div 16) + 1] \o HexChars[(shard % 16) + 1]
              /\ Len(targets[i][2]) = 2

\* C19 witness: the ordinals 255 and 256 have been rendered, as ff and 00
C19_WrapAt256 ==
    /\ cursorDraws = <<255, 256>>
    /\ targets[1][2] = "ff"
    /\ targets[2][2] = "00"

\* C20: a driver that has launched nothing yet has zero counters, an empty
\* histogram and a cursor at 0; the counters only ever count the backend
\* results of the current run; and a printed result carries exactly the
\* current run's successes, failures and samples, under the phase's name.
C20_FreshStatePerRun ==
    /\ (dpc \in {"check", "acquire"} /\ tasks = <<>>) =>
          /\ ok_count = 0
          /\ err_count = 0
          /\ histogram = NewHistogram
          /\ next_key_index = 0
          /\ key_counter = 0
    /\ cursorDraws # <<>> => cursorDraws[1] = 0
    /\ ok_count = backendOks
    /\ err_count = backendErrs
    /\ pc = "printed" =>
          /\ result.ok_ops = backendOks
          /\ result.err_ops = backendErrs
          /\ HistTotal(ret[3]) = backendOks - dropped
          /\ result.mode = (IF mode # "read_write" THEN mode
                            ELSE IF op = "read" THEN "read_small" ELSE "write_small")

\* C20 witness: after a read phase with a successful read, the write phase
\* prints a result with no success and one failure
C20_WritePhaseCountsOnlyWrites ==
    /\ mode = "read_write"
    /\ op = "write"
    /\ pc = "printed"
    /\ prevOks >= 1
    /\ result.ok_ops = 0
    /\ result.err_ops = 1

\* C21: the launch loop waits for nothing but a permit. While it waits, a
\* permit is available exactly when fewer than `concurrency` attempts are in
\* flight, whatever state the other attempts are in; from there the launch
\* is eventually made; and a loop test made before the deadline is eventually
\* followed by the acquire, unless the deadline passes first.
C21_WorkConserving ==
    /\ [](dpc = "acquire" => (CanAcquire <=> Cardinality(InFlight) < concurrency))
    /\ (dpc = "acquire" /\ Cardinality(InFlight) < concurrency) ~> (dpc = "prune")
    /\ (dpc = "check" /\ now < end_time /\ Len(tasks) < MaxAttempts)
          ~> (dpc = "acquire" \/ now >= end_time)

\* C21 witness: before the deadline a second attempt has been launched while
\* the first is still waiting for its backend call
C21_LaunchedBesideInFlight ==
    /\ dpc = "prune"
    /\ now < end_time
    /\ concurrency = 2
    /\ Len(tasks) = 2
    /\ tasks[1].pc = "awaiting"
    /\ tasks[2].pc = "spawned"

\* the attempts that have released their permit and are not yet marked finished
Exited == {t \in 1..Len(tasks) : tasks[t].pc = "exited"}

\* C22 (as claimed): the retain step that ends a launch-loop iteration leaves
\* fewer than 2 * concurrency handles in the list.
C22_HandlesBelowTwiceConcurrency ==
    [][(dpc = "prune" /\ dpc' = "check") => Len(handles') < 2 * concurrency]_vars

\* C22 (amended): the retain step that ends a launch-loop iteration leaves
\* either fewer than 2 * concurrency handles, or only handles of attempts
\* that are not finished, which are at most the `concurrency` attempts that
\* hold a permit plus those that have released theirs and are not yet
\* marked finished.
C22_HandlesBelowTwiceOrAllUnfinished ==
    [][(dpc = "prune" /\ dpc' = "check") =>
          \/ Len(handles') < 2 * concurrency
          \/ /\ \A i \in DOMAIN handles' : tasks'[handles'[i]].pc # "finished"
             /\ Len(handles') <= concurrency + Cardinality(Exited)]_vars

\* C22 witness: with one permit, an iteration has ended with two handles in
\* the list: the first attempt has released its permit but is not yet marked
\* finished, the second has just been spawned
C22_TwoUnfinishedHandles ==
    /\ dpc = "check"
    /\ concurrency = 1
    /\ Len(handles) = 2
    /\ Len(tasks) = 2
    /\ tasks[1].pc = "exited"
    /\ tasks[2].pc = "spawned"

\* C23 (as claimed): no attempt ever faults while it selects its key.
C23_KeySelectionNeverFaults == panics = 0

\* C24: in a run at most one attempt is launched at or after the deadline.
C24_AtMostOneLateLaunch == lateLaunches <= 1

\* C24 witness: a run has returned after launching its second attempt late
C24_ReturnedAfterLateLaunch ==
    /\ dpc = "done"
    /\ lateLaunches = 1
    /\ Len(tasks) = 2

\* C25: a cleanup delete is issued only with the cleanup flag set and a
\* non-empty Key Set, after the last driver has returned with every timed
\* attempt finished, and the cleanup loop is entered only from the printed
\* result of the last driver run.
C25_CleanupAfterBenchmark ==
    /\ []((pc = "cleanup" \/ cleanupDeletes > 0) =>
             /\ cleanup
             /\ keys # <<>>
             /\ dpc = "done"
             /\ \A t \in DOMAIN tasks : tasks[t].pc = "finished"
             /\ leftRunning = 0
             /\ (mode = "read_write" => op = "write"))
    /\ [][(pc # "cleanup" /\ pc' = "cleanup") =>
             (pc = "printed" /\ result # NoResult /\ cleanupDeletes = 0)]_vars

\* C25 witness: the first cleanup delete has been issued after a run of two
\* timed attempts
C25_CleaningAfterTwoAttempts ==
    /\ cleanupDeletes = 1
    /\ Len(tasks) = 2
    /\ timedOps = 2
====
